---- MODULE Spec2Model ----
(***************************************************************************)
(* A model of relcat/relcat.py: the RelationalCategorization task.         *)
(*                                                                         *)
(*   - the genome decoder  map_search_parameters      (SpecDecode)         *)
(*   - the fitness reducer eval_fitness               (SpecFit)            *)
(*   - the trial sweep     run_trials                 (SpecSweep)          *)
(*   - the two-phase trial trial       (SpecTrial, SpecTrialLive)          *)
(*                                                                         *)
(* Real numbers are kept exact.  A genome entry and a search bound is an   *)
(* integer count of 1/Unit; a decoded parameter, a trial outcome and a     *)
(* fitness is a fraction <<numerator, denominator>> with a positive        *)
(* denominator.  Floating-point rounding is not modelled.                  *)
(* Python arrays are 0-based: a vector is a function on 0..n-1, a matrix a *)
(* function on (0..r-1) \X (0..c-1); a genome is a sequence whose Python   *)
(* index k is the sequence index k+1.                                      *)
(***************************************************************************)
EXTENDS Integers, Sequences, FiniteSets, TLC

VARIABLES
    pc,              \* the position of the running method
    cfg,             \* the RelationalCategorization object (self)
    x,               \* the genome handed to map_search_parameters
    nervous_system,  \* agent.nervous_system, written by the decoder
    reads,           \* per segment, the segment indices the decoder has read so far
    result_matrix,   \* run_trials' result_matrix, eval_fitness' fitness_matrix
    sweep,           \* run_trials' loop indices i, j and the trials it has run
    fitness,         \* what eval_fitness returned or raised
    ball,            \* the Circle of a trial
    agent,           \* the SensorAgent of a trial
    args,            \* the arguments of the running trial
    result,          \* what the trial returned
    clock,           \* the simulation steps the trial has taken
    calls,           \* the calls the trial has made on its collaborators, in order
    time_records,    \* self.time_records, the times of the recorded log
    object_records   \* self.object_records, the recorded log

decodeVars == <<x, nervous_system, reads>>

fitVars == <<result_matrix, sweep, fitness>>

trialVars == <<ball, agent, args, result, clock, calls, time_records, object_records>>

vars == <<pc, cfg, decodeVars, fitVars, trialVars>>

\* the value of a variable the running method does not use
Unused == "unused"

(***************************************************************************)
(* Bounds of the model.                                                    *)
(***************************************************************************)
\* genome entries and search bounds are multiples of 1/Unit
Unit == 256
\* interneuron counts 1..MaxInterneurons
MaxInterneurons == 6
\* ray counts MinRays..MaxRays
MinRays == 3
MaxRays == 9
\* genome lengths num_parameters - MaxLenDelta .. num_parameters + MaxLenDelta
MaxLenDelta == 1
\* eval_fitness is applied to matrices of side 0..MaxSide
MaxSide == 4
\* run_trials is run with circle_max_diameter in 1..MaxSweepDiameter
MaxSweepDiameter == 6
\* a trial takes at most MaxTrialSteps simulation steps
MaxTrialSteps == 12
\* a trial's obj_velocity is in -1..MaxObjVelocity
MaxObjVelocity == 2
\* a trial's max_distance is in 1..MaxMaxDistance
MaxMaxDistance == 3

(***************************************************************************)
(* Arithmetic helpers.                                                     *)
(***************************************************************************)
Abs(a) == IF a < 0 THEN -a ELSE a

Min(a, b) == IF a <= b THEN a ELSE b

\* math.ceil(a / 2) for an integer a >= 0
CeilHalf(a) == (a + 1) \div 2

\* a fraction n/d, d > 0
Rat(n, d) == <<n, d>>

RLe(p, q) == p[1] * q[2] <= q[1] * p[2]

REq(p, q) == p[1] * q[2] = q[1] * p[2]

RECURSIVE Gcd(_, _)
Gcd(a, b) == IF b = 0 THEN a ELSE Gcd(b, a % b)

\* n/d in lowest terms, d > 0
Lowest(n, d) == LET g == Gcd(Abs(n), d) IN Rat(n \div g, d \div g)

RAdd(p, q) == Lowest(p[1] * q[2] + q[1] * p[2], p[2] * q[2])

RSub(p, q) == Lowest(p[1] * q[2] - q[1] * p[2], p[2] * q[2])

\* p / k for an integer k # 0
RDivInt(p, k) == IF k > 0 THEN Lowest(p[1], p[2] * k) ELSE Lowest(-p[1], p[2] * (-k))

ROne == Rat(1, 1)

RMin(p, q) == IF RLe(p, q) THEN p ELSE q

RZero == Rat(0, 1)

\* the Python slice s[a:b] of a sequence, 0 <= a, 0 <= b (clipped, never an error)
PySlice(s, a, b) == SubSeq(s, Min(a, Len(s)) + 1, Min(b, Len(s)))

\* the Python slice s[a:]
PySliceFrom(s, a) == SubSeq(s, Min(a, Len(s)) + 1, Len(s))

\* np.zeros(n)
Zeros(n) == [k \in 0 .. n - 1 |-> RZero]

\* np.zeros((r, c))
Zeros2(r, c) == [cell \in (0 .. r - 1) \X (0 .. c - 1) |-> RZero]

\* the pairs <<i, j>>, i in range(n), j in range(m), in the order of the nested loop
NestedRange(n, m) == [k \in 1 .. n * m |-> <<(k - 1) \div m, (k - 1) % m>>]

(***************************************************************************)
(* __init__: the parameters and the derived counts.                        *)
(***************************************************************************)
\* the defaults of the parameters the model uses (search bounds in 1/Unit).  step_size
\* (default 0.1) has no whole default: every configuration that runs a trial gives it.
parameter_defaults ==
    [ world_left |-> 0, world_right |-> 400, world_top |-> 0, world_bottom |-> 300,
      bilateral_symmetry |-> FALSE, agent_radius |-> 15,
      num_rays |-> 7, num_interneurons |-> 3,
      max_distance |-> 75, max_ray_length |-> 220, max_velocity |-> 5,
      obj_velocity |-> 3, circle_size |-> 20,
      circle_min_diameter |-> 20, circle_max_diameter |-> 50,
      circle_difference |-> 5,
      min_weight |-> -16, max_weight |-> 16,
      min_bias |-> -16, max_bias |-> 16,
      min_tau |-> 1, max_tau |-> 30,
      min_search_value |-> 0, max_search_value |-> Unit ]

\* a slip: the unpaired centre ray of an odd ray count is not counted
SymNumSensorWeightsNoCentre(R, I) == (R \div 2) * I

\* num_sensor_weights of the bilateral-symmetric mode
SymNumSensorWeights(R, I) ==
    IF R % 2 = 0 THEN (R * I) \div 2
    ELSE ((R - 1) \div 2) * I + CeilHalf(I)

\* num_circuit_weights of the bilateral-symmetric mode
SymNumCircuitWeights(I) ==
    LET num_motor_weights == I
        num_loops == CeilHalf(I)
        num_cross_connections == (I \div 2) * (I \div 2)
        num_side_connections == CeilHalf(I) * (CeilHalf(I) - 1)
    IN num_motor_weights + num_loops + num_cross_connections + num_side_connections

RelationalCategorization(kwargs) ==
    LET p == [key \in DOMAIN parameter_defaults \cup {"step_size"} |->
                 IF key \in DOMAIN kwargs THEN kwargs[key]
                 ELSE IF key \in DOMAIN parameter_defaults THEN parameter_defaults[key]
                 ELSE Unused]
        I == p.num_interneurons
        R == p.num_rays
        initial_agent_y == p.world_bottom - p.agent_radius
        nsw == IF p.bilateral_symmetry THEN SymNumSensorWeights(R, I) ELSE I * R
        ncw == IF p.bilateral_symmetry THEN SymNumCircuitWeights(I) ELSE I * (I + 2)
        np == IF p.bilateral_symmetry
              THEN nsw + ncw + CeilHalf(I) + CeilHalf(I) + 2
              ELSE nsw + ncw + I + 2 + I + 2
    IN p @@ [ circuit_size |-> I + 2,
              initial_agent_x |-> (p.world_right - p.world_left) \div 2,
              initial_agent_y |-> initial_agent_y,
              agent_top |-> initial_agent_y + p.agent_radius,
              num_sensor_weights |-> nsw,
              num_circuit_weights |-> ncw,
              num_parameters |-> np ]

(***************************************************************************)
(* The parameter rescaler.                                                 *)
(***************************************************************************)
\* bound - abs(value % (2 * bound) - bound); value and bound in 1/Unit
periodic_boundary_conditions(value, bound) ==
    bound - Abs((value % (2 * bound)) - bound)

\* scale * search_value + bias, with scale = (max_p - min_p) / (max_s - min_s) and
\* bias = min_p - scale * min_s: the fraction
\*   (min_p * (max_s - min_s) + (max_p - min_p) * (search_value - min_s)) / (max_s - min_s)
\* (search_value, min_s, max_s in 1/Unit: the unit cancels)
rescale_parameter(search_value, min_p, max_p, min_s, max_s) ==
    Rat(min_p * (max_s - min_s) + (max_p - min_p) * (search_value - min_s),
        max_s - min_s)

\* rescale_parameter(periodic_boundary_conditions(seg, 1), lo, hi, min_s, max_s) on an array
RescaledSegment(seg, lo, hi) ==
    [k \in 1 .. Len(seg) |->
        rescale_parameter(periodic_boundary_conditions(seg[k], 1 * Unit), lo, hi,
                          cfg.min_search_value, cfg.max_search_value)]

(***************************************************************************)
(* map_search_parameters.  A loop is the sequence of its assignments: each *)
(* assignment [idx, cells] copies segment[idx] into every cell of cells.   *)
(***************************************************************************)
sensor_index_end == cfg.num_sensor_weights

circuit_index_end == sensor_index_end + cfg.num_circuit_weights

bias_index_end ==
    IF cfg.bilateral_symmetry
    THEN circuit_index_end + CeilHalf(cfg.circuit_size)
    ELSE circuit_index_end + cfg.circuit_size

\* index_counter: the k-th assignment of a run of loops reads segment[k - 1]
Counted(cellSeq) == [k \in 1 .. Len(cellSeq) |-> [idx |-> k - 1, cells |-> cellSeq[k]]]

\* a slip: the mirror flips the ray index alone
SymSensorMirrorRayOnly(it) == <<it, <<cfg.num_rays - it[1] - 1, it[2]>>>>

SymSensorMirror(it) ==
    <<it, <<cfg.num_rays - it[1] - 1, cfg.num_interneurons - it[2] - 1>>>>

SymSensorAssignments ==
    LET R == cfg.num_rays
        I == cfg.num_interneurons
        pairs == NestedRange(R \div 2, I)
        paired == [k \in 1 .. Len(pairs) |-> SymSensorMirror(pairs[k])]
        centre == IF R % 2 = 1
                  THEN [j \in 1 .. CeilHalf(I) |->
                          <<<<R \div 2, j - 1>>, <<R \div 2, I - (j - 1) - 1>>>>]
                  ELSE <<>>
    IN Counted(paired \o centre)

AsymSensorAssignments ==
    LET I == cfg.num_interneurons
        its == NestedRange(cfg.num_rays, I)
    IN [k \in 1 .. Len(its) |->
          [idx |-> I * its[k][1] + its[k][2], cells |-> <<its[k]>>]]

SymCircuitMirror(it) ==
    <<it, <<cfg.num_interneurons - it[1] - 1, cfg.num_interneurons - it[2] - 1>>>>

SymMotorMirror(it) ==
    << <<it[1], cfg.num_interneurons + it[2]>>,
       <<cfg.num_interneurons - it[1] - 1, cfg.circuit_size - it[2] - 1>> >>

SymCircuitAssignments ==
    LET I == cfg.num_interneurons
        half == I \div 2
        rows == NestedRange(half, I)
        paired == [k \in 1 .. Len(rows) |-> SymCircuitMirror(rows[k])]
        centre == IF I % 2 = 1
                  THEN [j \in 1 .. CeilHalf(I) |->
                          <<<<half, j - 1>>, <<half, I - (j - 1) - 1>>>>]
                  ELSE <<>>
        motors == NestedRange(half, 2)
        motorPaired == [k \in 1 .. Len(motors) |-> SymMotorMirror(motors[k])]
        motorCentre == IF I % 2 = 1
                       THEN << <<<<half, I + 0>>, <<half, cfg.circuit_size - 0 - 1>>>> >>
                       ELSE <<>>
    IN Counted(paired \o centre \o motorPaired \o motorCentre)

\* a slip: the motor pairs are read with stride 1
AsymMotorIndexStrideOne(i, j) == cfg.num_interneurons * cfg.num_interneurons + i + j

AsymMotorIndex(i, j) == cfg.num_interneurons * cfg.num_interneurons + 2 * i + j

AsymCircuitAssignments ==
    LET I == cfg.num_interneurons
        block == NestedRange(I, I)
        motors == NestedRange(I, 2)
    IN [k \in 1 .. Len(block) |->
          [idx |-> I * block[k][1] + block[k][2], cells |-> <<block[k]>>]]
       \o
       [k \in 1 .. Len(motors) |->
          [idx |-> AsymMotorIndex(motors[k][1], motors[k][2]),
           cells |-> <<<<motors[k][1], I + motors[k][2]>>>>]]

\* biases[i] = pars[i]; biases[I - i - 1] = pars[i]; biases[-2] = biases[-1] = pars[-1]
SymVectorMirror(i) == <<i, cfg.num_interneurons - i - 1>>

SymVectorAssignments ==
    [k \in 1 .. CeilHalf(cfg.num_interneurons) |->
        [idx |-> k - 1, cells |-> SymVectorMirror(k - 1)]]
    \o << [idx |-> -1, cells |-> <<cfg.circuit_size - 2>>],
          [idx |-> -1, cells |-> <<cfg.circuit_size - 1>>] >>

\* a Python index into an array of length n: a negative one counts from the end
PyIndex(idx, n) == IF idx < 0 THEN idx + n ELSE idx

\* does assignment a write cell c
WriteCells(a, c) == \E n \in 1 .. Len(a.cells) : a.cells[n] = c

\* Runs the assignments in order on target.  An index outside the segment raises
\* IndexError; the assignments made before it stay.  read: the segment indices read.
\* A cell ends with the value of the last assignment made to it.
RunAssignments(target, assignments, segment, read) ==
    LET at == [n \in 1 .. Len(assignments) |-> PyIndex(assignments[n].idx, Len(segment))]
        raising == {n \in 1 .. Len(assignments) : at[n] < 0 \/ at[n] >= Len(segment)}
        made == IF raising = {} THEN Len(assignments)
                ELSE (CHOOSE n \in raising : \A m \in raising : n <= m) - 1
        written(c) ==
            LET writers == {n \in 1 .. made : WriteCells(assignments[n], c)}
            IN IF writers = {} THEN target[c]
               ELSE segment[at[CHOOSE n \in writers : \A m \in writers : m <= n] + 1]
    IN [err |-> raising # {},
        target |-> [c \in DOMAIN target |-> written(c)],
        read |-> read \cup {at[n] : n \in 1 .. made}]

\* an array as a 0-based vector
AsVector(arr) == [k \in 0 .. Len(arr) - 1 |-> arr[k + 1]]

\* A fresh SensorAgent's nervous system: zero weights, biases and time constants.
FreshNervousSystem ==
    [ sensor_weights |-> Zeros2(cfg.num_rays, cfg.num_interneurons),
      circuit_weights |-> Zeros2(cfg.circuit_size, cfg.circuit_size),
      biases |-> Zeros(cfg.circuit_size),
      time_constants |-> Zeros(cfg.circuit_size) ]

\* lines 157-182 and 274-283
MapSensorWeights ==
    /\ pc = "sensor_weights"
    /\ LET segment == RescaledSegment(PySlice(x, 0, sensor_index_end),
                                      cfg.min_weight, cfg.max_weight)
           res == RunAssignments(nervous_system.sensor_weights,
                                 IF cfg.bilateral_symmetry THEN SymSensorAssignments
                                 ELSE AsymSensorAssignments,
                                 segment, {})
       IN /\ nervous_system' = [nervous_system EXCEPT !.sensor_weights = res.target]
          /\ reads' = [reads EXCEPT !.sensor = res.read]
          /\ pc' = IF res.err THEN "IndexError" ELSE "circuit_weights"
    /\ UNCHANGED <<cfg, x, fitVars, trialVars>>

\* lines 184-232 and 284-301
MapCircuitWeights ==
    /\ pc = "circuit_weights"
    /\ LET segment == RescaledSegment(PySlice(x, sensor_index_end, circuit_index_end),
                                      cfg.min_weight, cfg.max_weight)
           res == RunAssignments(nervous_system.circuit_weights,
                                 IF cfg.bilateral_symmetry THEN SymCircuitAssignments
                                 ELSE AsymCircuitAssignments,
                                 segment, {})
       IN /\ nervous_system' = [nervous_system EXCEPT !.circuit_weights = res.target]
          /\ reads' = [reads EXCEPT !.circuit = res.read]
          /\ pc' = IF res.err THEN "IndexError" ELSE "biases"
    /\ UNCHANGED <<cfg, x, fitVars, trialVars>>

\* nervous_system.set_biases / set_time_constants: the vector replaces the field.  What
\* the setter does with a vector whose length is not circuit_size is not known: it
\* either takes it or raises.
SetterOutcomes(vector) ==
    IF Len(vector) = cfg.circuit_size THEN {"set"} ELSE {"set", "raise"}

\* lines 234-249 and 302-308
MapBiases ==
    /\ pc = "biases"
    /\ LET raw == PySlice(x, circuit_index_end, bias_index_end)
           segment == RescaledSegment(raw, cfg.min_bias, cfg.max_bias)
       IN IF cfg.bilateral_symmetry
          THEN LET res == RunAssignments(Zeros(cfg.circuit_size), SymVectorAssignments,
                                         segment, {})
               IN /\ reads' = [reads EXCEPT !.bias = res.read]
                  /\ IF res.err
                     THEN /\ pc' = "IndexError"
                          /\ UNCHANGED nervous_system
                     ELSE /\ pc' = "time_constants"
                          /\ nervous_system' = [nervous_system EXCEPT !.biases = res.target]
          ELSE /\ reads' = [reads EXCEPT !.bias = 0 .. Len(raw) - 1]
               /\ \E outcome \in SetterOutcomes(segment) :
                    IF outcome = "set"
                    THEN /\ pc' = "time_constants"
                         /\ nervous_system' =
                               [nervous_system EXCEPT !.biases = AsVector(segment)]
                    ELSE /\ pc' = "SetterError"
                         /\ UNCHANGED nervous_system
    /\ UNCHANGED <<cfg, x, fitVars, trialVars>>

\* lines 251-266 and 310-316
MapTimeConstants ==
    /\ pc = "time_constants"
    /\ LET raw == PySliceFrom(x, bias_index_end)
           segment == RescaledSegment(raw, cfg.min_tau, cfg.max_tau)
       IN IF cfg.bilateral_symmetry
          THEN LET res == RunAssignments(Zeros(cfg.circuit_size), SymVectorAssignments,
                                         segment, {})
               IN /\ reads' = [reads EXCEPT !.tau = res.read]
                  /\ IF res.err
                     THEN /\ pc' = "IndexError"
                          /\ UNCHANGED nervous_system
                     ELSE /\ pc' = "decoded"
                          /\ nervous_system' =
                                [nervous_system EXCEPT !.time_constants = res.target]
          ELSE /\ reads' = [reads EXCEPT !.tau = 0 .. Len(raw) - 1]
               /\ \E outcome \in SetterOutcomes(segment) :
                    IF outcome = "set"
                    THEN /\ pc' = "decoded"
                         /\ nervous_system' =
                               [nervous_system EXCEPT !.time_constants = AsVector(segment)]
                    ELSE /\ pc' = "SetterError"
                         /\ UNCHANGED nervous_system
    /\ UNCHANGED <<cfg, x, fitVars, trialVars>>

(***************************************************************************)
(* The decoder's inputs.                                                   *)
(***************************************************************************)
\* <<min_search_value, max_search_value>> in 1/Unit: the defaults [0, 1], a range
\* around [0, 1], and one beside it
SearchBounds == {<<0, Unit>>, <<-Unit, Unit>>, <<Unit, 2 * Unit>>}

\* genomes x[k] = base + stride * k: entries inside [0, 1] (all distinct), and
\* entries below 0 and above 1
GenomeShapes == {<<1, 1>>, <<-(2 * Unit) - 5, 7>>, <<Unit - 3, 3>>}

Genome(shape, n) == [k \in 1 .. n |-> shape[1] + shape[2] * (k - 1)]

GenomeLengths(c) ==
    {n \in (c.num_parameters - MaxLenDelta) .. (c.num_parameters + MaxLenDelta) : n >= 0}
    \cup {0, c.num_sensor_weights, c.num_sensor_weights + c.num_circuit_weights}

DecodeConfigs ==
    {RelationalCategorization(
        [bilateral_symmetry |-> b, num_interneurons |-> I, num_rays |-> R,
         min_search_value |-> s[1], max_search_value |-> s[2]]) :
        b \in BOOLEAN, I \in 1 .. MaxInterneurons, R \in MinRays .. MaxRays,
        s \in SearchBounds}

InitDecode ==
    /\ pc = "sensor_weights"
    /\ cfg \in DecodeConfigs
    /\ \E shape \in GenomeShapes, n \in GenomeLengths(cfg) : x = Genome(shape, n)
    /\ nervous_system = FreshNervousSystem
    /\ reads = [sensor |-> {}, circuit |-> {}, bias |-> {}, tau |-> {}]
    /\ result_matrix = Unused /\ sweep = Unused /\ fitness = Unused
    /\ ball = Unused /\ agent = Unused /\ args = Unused /\ result = Unused
    /\ clock = Unused /\ calls = Unused
    /\ time_records = Unused /\ object_records = Unused

NextDecode ==
    \/ MapSensorWeights
    \/ MapCircuitWeights
    \/ MapBiases
    \/ MapTimeConstants

SpecDecode == InitDecode /\ [][NextDecode]_vars

(***************************************************************************)
(* eval_fitness.  A matrix is [shape |-> <<rows, columns>>, at |-> cells]. *)
(***************************************************************************)
\* the cells of an n x n matrix
Cells(n) == (0 .. n - 1) \X (0 .. n - 1)

SquareMatrix(n, cells) == [shape |-> <<n, n>>, at |-> cells]

\* a slip: the diagonal is skipped and the column and the row are averaged whole
RECURSIVE EvalInnerWholeAverage(_, _, _, _)
EvalInnerWholeAverage(M, i, j, st) ==
    IF j >= M.shape[2] THEN st
    ELSE IF i = j THEN EvalInnerWholeAverage(M, i, j + 1, st)
    ELSE EvalInnerWholeAverage(M, i, j + 1,
            [st EXCEPT !.num_sums = @ + 1,
                       !.col_sum = RAdd(@, M.at[<<j, i>>]),
                       !.row_sum = RAdd(@, M.at[<<i, j>>])])

\* the loop over j of lines 445-456, from j on
RECURSIVE EvalInner(_, _, _, _)
EvalInner(M, i, j, st) ==
    IF st.err \/ j >= M.shape[2] THEN st
    ELSE IF i = j
    THEN IF st.num_sums = 0 THEN [st EXCEPT !.err = TRUE]
         ELSE EvalInner(M, i, j + 1,
                 [st EXCEPT !.col_avg = RAdd(@, RDivInt(st.col_sum, st.num_sums)),
                            !.row_avg = RAdd(@, RDivInt(st.row_sum, st.num_sums)),
                            !.col_sum = RZero, !.row_sum = RZero, !.num_sums = 0])
    ELSE EvalInner(M, i, j + 1,
            [st EXCEPT !.num_sums = @ + 1,
                       !.col_sum = RAdd(@, M.at[<<j, i>>]),
                       !.row_sum = RAdd(@, M.at[<<i, j>>])])

\* the loop over i of lines 440-459, from i on
RECURSIVE EvalOuter(_, _, _)
EvalOuter(M, i, st) ==
    IF st.err \/ i >= M.shape[1] - 1 THEN st
    ELSE LET inner == EvalInner(M, i, 0,
                         [st EXCEPT !.col_sum = RZero, !.row_sum = RZero, !.num_sums = 0])
         IN IF inner.err \/ inner.num_sums = 0 THEN [inner EXCEPT !.err = TRUE]
            ELSE EvalOuter(M, i + 1,
                    [inner EXCEPT
                        !.col_avg = RAdd(@, RDivInt(inner.col_sum, inner.num_sums)),
                        !.row_avg = RAdd(@, RDivInt(inner.row_sum, inner.num_sums))])

\* what eval_fitness returns, or the ZeroDivisionError it raises
eval_fitness(fitness_matrix) ==
    LET st == EvalOuter(fitness_matrix, 1,
                        [col_avg |-> RZero, row_avg |-> RZero, col_sum |-> RZero,
                         row_sum |-> RZero, num_sums |-> 0, err |-> FALSE])
        count == fitness_matrix.shape[1] - 2
    IN IF st.err \/ count = 0 THEN [kind |-> "ZeroDivisionError"]
       ELSE [kind |-> "return",
             value |-> RMin(RDivInt(RDivInt(st.col_avg, count), 2),
                            RDivInt(RDivInt(st.row_avg, count), 2))]

\* eval_fitness(result_matrix): the call, and the last line of run_trials
EvalFitness ==
    /\ pc = "eval_fitness"
    /\ fitness' = eval_fitness(result_matrix)
    /\ pc' = IF fitness'.kind = "return" THEN "returned" ELSE "ZeroDivisionError"
    /\ UNCHANGED <<cfg, decodeVars, result_matrix, sweep, trialVars>>

\* the matrices eval_fitness is applied to: cell [i, j] is rows[i] * cols[j] off the
\* diagonal (rows and cols 0/1 patterns, doubled above the diagonal when upper = 2)
\* and diag on it
FitMatrices ==
    UNION {{SquareMatrix(n, [c \in Cells(n) |->
                               IF c[1] = c[2] THEN Rat(diag, 1)
                               ELSE Rat(rows[c[1]] * cols[c[2]]
                                          * (IF c[2] > c[1] THEN upper ELSE 1), 1)]) :
                rows \in [0 .. n - 1 -> {0, 1}], cols \in [0 .. n - 1 -> {0, 1}],
                diag \in {0, 1, 3}, upper \in {1, 2}} :
            n \in 0 .. MaxSide}

InitFit ==
    /\ pc = "eval_fitness"
    /\ cfg = RelationalCategorization(<<>>)
    /\ result_matrix \in FitMatrices
    /\ fitness = Unused /\ sweep = Unused
    /\ x = Unused /\ nervous_system = Unused /\ reads = Unused
    /\ ball = Unused /\ agent = Unused /\ args = Unused /\ result = Unused
    /\ clock = Unused /\ calls = Unused
    /\ time_records = Unused /\ object_records = Unused

NextFit == EvalFitness

SpecFit == InitFit /\ [][NextFit]_vars

(***************************************************************************)
(* The outcome of a trial (lines 411-434).                                 *)
(***************************************************************************)
\* a slip: the distance is not cut at 1
TrialFitnessUncut(ball_x, agent_x, presented_ball_size, comparison_ball_size) ==
    LET normalized_distance == Rat(Abs(ball_x - agent_x), cfg.max_distance)
    IN IF presented_ball_size > comparison_ball_size
       THEN RSub(ROne, normalized_distance)
       ELSE normalized_distance

\* continuous mode: 1 - d when the presented size is the larger, d otherwise, with
\* d = abs(ball.center_xpos - agent.xpos) / max_distance cut at 1
TrialFitness(ball_x, agent_x, presented_ball_size, comparison_ball_size) ==
    LET distance == Rat(Abs(ball_x - agent_x), cfg.max_distance)
        normalized_distance == IF ~RLe(distance, ROne) THEN ROne ELSE distance
    IN IF presented_ball_size > comparison_ball_size
       THEN RSub(ROne, normalized_distance)
       ELSE normalized_distance

\* a slip: spans that only touch count as apart
TrialValidationNoTouch(b, a, presented_ball_size, comparison_ball_size) ==
    LET apart == \/ (b.center_xpos - b.size) >= (a.xpos + a.radius)
                 \/ (b.center_xpos + b.size) <= (a.xpos - a.radius)
    IN IF presented_ball_size > comparison_ball_size
       THEN IF apart THEN <<0, 0>> ELSE <<1, 1>>
       ELSE IF apart THEN <<1, 0>> ELSE <<0, 1>>

\* validation mode: <<success, caught>> from the overlap of the ball's and the agent's
\* horizontal spans
TrialValidation(b, a, presented_ball_size, comparison_ball_size) ==
    LET apart == \/ (b.center_xpos - b.size) > (a.xpos + a.radius)
                 \/ (b.center_xpos + b.size) < (a.xpos - a.radius)
    IN IF presented_ball_size > comparison_ball_size
       THEN IF apart THEN <<0, 0>> ELSE <<1, 1>>
       ELSE IF apart THEN <<1, 0>> ELSE <<0, 1>>

(***************************************************************************)
(* The collaborators of a trial, Circle and SensorAgent.  Lengths are      *)
(* whole numbers: the diameters of the model are even, and obj_velocity *  *)
(* step_size and max_velocity * step_size are whole.                       *)
(***************************************************************************)
\* Circle(size, center_xpos, center_ypos, velocity_x, velocity_y)
Circle(size, xpos, ypos, vx, vy) ==
    [size |-> size, center_xpos |-> xpos, center_ypos |-> ypos,
     velocity_x |-> vx, velocity_y |-> vy]

\* ball.step(step_size): the ball moves by its velocity
CircleStep(b, step_size) ==
    [b EXCEPT !.center_xpos = @ + b.velocity_x * step_size,
              !.center_ypos = @ + b.velocity_y * step_size]

\* ball.leading_edge_y(): the lower edge (y grows downwards)
leading_edge_y(b) == b.center_ypos + b.size

\* The rays of an agent at (xpos, ypos): ray k runs from the agent's centre (x1, y1) to
\* its end (x2, y2).  The ray geometry is the collaborator's own; here the rays fan out
\* upwards one column apart, and reach as far as length.
Rays(xpos, ypos, num_rays, length) ==
    [k \in 1 .. num_rays |->
        [x1 |-> xpos, y1 |-> ypos,
         x2 |-> xpos + k - (num_rays + 1) \div 2, y2 |-> ypos - length]]

\* SensorAgent(radius, ..., num_rays, max_ray_length, xpos, ypos, ..., max_velocity)
SensorAgent(radius, num_rays, max_ray_length, xpos, ypos, max_velocity) ==
    [radius |-> radius, max_ray_length |-> max_ray_length, xpos |-> xpos, ypos |-> ypos,
     max_velocity |-> max_velocity, velocity_x |-> 0,
     rays |-> Rays(xpos, ypos, num_rays, max_ray_length),
     initialized |-> 0]

\* agent.set_position(x, y)
set_position(a, xpos, ypos) == [a EXCEPT !.xpos = xpos, !.ypos = ypos]

\* agent.reset_rays(): the rays at full length
reset_rays(a) ==
    [a EXCEPT !.rays = Rays(a.xpos, a.ypos, Len(a.rays), a.max_ray_length)]

\* agent.one_obj_step(step_size, ball, frozen): the rays sense the ball and the
\* controller advances; an agent that is not frozen moves by dx, which the controller
\* decides and max_velocity bounds
AgentMoves(a, step_size, frozen) ==
    IF frozen THEN {0}
    ELSE (-(a.max_velocity * step_size)) .. (a.max_velocity * step_size)

\* a sensing ray ends at the ball's lower edge when that is nearer than its full length
SensedLength(a, b) ==
    LET gap == a.ypos - leading_edge_y(b)
    IN IF gap < 0 THEN 0 ELSE Min(a.max_ray_length, gap)

one_obj_step(a, dx, b, frozen) ==
    [a EXCEPT !.xpos = @ + dx,
              !.rays = Rays(a.xpos + dx, a.ypos, Len(a.rays), SensedLength(a, b))]

\* agent.clip_position(left, right)
clip_position(a, left, right) ==
    [a EXCEPT !.xpos = IF @ < left THEN left ELSE IF @ > right THEN right ELSE @]

(***************************************************************************)
(* _record_data (lines 336-366).  object_records is keyed by 'ball',       *)
(* 'agent' and the ray indices; the model keeps the rays' entries as the   *)
(* sequence object_records.rays (ray i of the code is entry i + 1).        *)
(***************************************************************************)
\* a trial that has not called _record_data holds no log
NoRecords ==
    [ball |-> [x |-> <<>>, y |-> <<>>, radius |-> <<>>],
     agent |-> [x |-> <<>>, y |-> <<>>, radius |-> <<>>],
     rays |-> <<>>]

\* start = True: the lists are created with one entry (lines 339-351)
RecordStart(a, b) ==
    [time_records |-> <<0>>,
     object_records |->
        [ball |-> [x |-> <<b.center_xpos>>, y |-> <<b.center_ypos>>,
                   radius |-> <<b.size>>],
         agent |-> [x |-> <<a.xpos>>, y |-> <<a.ypos>>, radius |-> <<a.radius>>],
         rays |-> [i \in 1 .. Len(a.rays) |->
                     [x1 |-> <<a.rays[i].x1>>, y1 |-> <<a.rays[i].y1>>,
                      x2 |-> <<a.rays[i].y2>>, y2 |-> <<a.rays[i].x2>>]]]]

\* start = False: one entry is appended to every list (lines 355-366)
RecordAppend(a, b) ==
    [time_records |->
        Append(time_records, time_records[Len(time_records)] + cfg.step_size),
     object_records |->
        [ball |-> [x |-> Append(object_records.ball.x, b.center_xpos),
                   y |-> Append(object_records.ball.y, b.center_ypos),
                   radius |-> Append(object_records.ball.radius, b.size)],
         agent |-> [x |-> Append(object_records.agent.x, a.xpos),
                    y |-> Append(object_records.agent.y, a.ypos),
                    radius |-> Append(object_records.agent.radius, a.radius)],
         rays |-> [i \in 1 .. Len(a.rays) |->
                     [x1 |-> Append(object_records.rays[i].x1, a.rays[i].x1),
                      y1 |-> Append(object_records.rays[i].y1, a.rays[i].y1),
                      x2 |-> Append(object_records.rays[i].x2, a.rays[i].x2),
                      y2 |-> Append(object_records.rays[i].y2, a.rays[i].y2)]]]]

_record_data(a, b, start) == IF start THEN RecordStart(a, b) ELSE RecordAppend(a, b)

\* if record: self._record_data(agent, ball, start), with the agent and the ball as
\* the step has left them
Record(a, b, start) ==
    IF args.record
    THEN /\ time_records' = _record_data(a, b, start).time_records
         /\ object_records' = _record_data(a, b, start).object_records
    ELSE UNCHANGED <<time_records, object_records>>

\* the calls _record_data adds to the trial's calls
RecordCalls(start) == IF args.record THEN <<<<"_record_data", start>>>> ELSE <<>>

(***************************************************************************)
(* trial (lines 368-434).  calls lists, in order, the calls the trial has  *)
(* made on the agent, the controller and the ball, each with its argument. *)
(***************************************************************************)
\* a trial that has not returned
NoResult == <<>>

\* the condition of both while loops
BallAboveAgent == leading_edge_y(ball) < agent.ypos - agent.radius

\* initial_agent_y - (agent.radius + agent.max_ray_length + ball_size)
InitialObjectY(ball_size) ==
    cfg.initial_agent_y - (agent.radius + agent.max_ray_length + ball_size)

\* lines 371-385
TrialSetup ==
    /\ pc = "trial"
    /\ LET placed == reset_rays(set_position(agent, cfg.initial_agent_x,
                                             cfg.initial_agent_y))
           a == [placed EXCEPT !.initialized = @ + 1, !.velocity_x = 0]
           b == [ball EXCEPT !.center_xpos = cfg.initial_agent_x,
                             !.center_ypos = InitialObjectY(args.presented_ball_size),
                             !.size = args.presented_ball_size \div 2]
       IN /\ agent' = a
          /\ ball' = b
          /\ Record(a, b, TRUE)
    /\ calls' = calls \o
          << <<"agent.set_position", <<cfg.initial_agent_x, cfg.initial_agent_y>>>>,
             <<"agent.reset_rays", Unused>>,
             <<"agent.nervous_system.initialize", Unused>>,
             <<"agent.velocity_x", 0>>,
             <<"ball.set_position",
               <<cfg.initial_agent_x, InitialObjectY(args.presented_ball_size)>>>>,
             <<"ball.set_size", args.presented_ball_size \div 2>>,
             <<"agent.initialize_ray_sensors", Unused>> >>
          \o RecordCalls(TRUE)
    /\ pc' = "phase1"
    /\ UNCHANGED <<cfg, decodeVars, fitVars, args, result, clock>>

\* a slip: the first loop does not step the ball
Phase1StepBallStill ==
    /\ pc = "phase1"
    /\ BallAboveAgent
    /\ clock < MaxTrialSteps
    /\ \E dx \in AgentMoves(agent, cfg.step_size, TRUE) :
          LET a == one_obj_step(agent, dx, ball, TRUE)
          IN /\ ball' = ball
             /\ agent' = a
             /\ Record(a, ball, FALSE)
    /\ calls' = calls \o << <<"agent.one_obj_step", TRUE>> >> \o RecordCalls(FALSE)
    /\ clock' = clock + 1
    /\ UNCHANGED <<pc, cfg, decodeVars, fitVars, args, result>>

\* lines 388-393: one pass of the first loop, the agent held still
Phase1Step ==
    /\ pc = "phase1"
    /\ BallAboveAgent
    /\ clock < MaxTrialSteps
    /\ \E dx \in AgentMoves(agent, cfg.step_size, TRUE) :
          LET b == CircleStep(ball, cfg.step_size)
              a == one_obj_step(agent, dx, b, TRUE)
          IN /\ ball' = b
             /\ agent' = a
             /\ Record(a, b, FALSE)
    /\ calls' = calls \o << <<"ball.step", cfg.step_size>>,
                            <<"agent.one_obj_step", TRUE>> >>
                      \o RecordCalls(FALSE)
    /\ clock' = clock + 1
    /\ UNCHANGED <<pc, cfg, decodeVars, fitVars, args, result>>

\* a slip: the controller is initialised again between the phases
ResetupInitialising ==
    /\ pc = "phase1"
    /\ ~BallAboveAgent
    /\ ball' = [ball EXCEPT !.center_xpos = cfg.initial_agent_x,
                            !.center_ypos = InitialObjectY(args.comparison_ball_size),
                            !.size = args.comparison_ball_size \div 2]
    /\ agent' = [reset_rays(agent) EXCEPT !.initialized = @ + 1]
    /\ calls' = calls \o
          << <<"ball.set_position",
               <<cfg.initial_agent_x, InitialObjectY(args.comparison_ball_size)>>>>,
             <<"ball.set_size", args.comparison_ball_size \div 2>>,
             <<"agent.reset_rays", Unused>>,
             <<"agent.nervous_system.initialize", Unused>> >>
    /\ pc' = "phase2"
    /\ UNCHANGED <<cfg, decodeVars, fitVars, args, result, clock, time_records,
                   object_records>>

\* lines 395-400: the first loop has ended; the comparison ball is placed
Resetup ==
    /\ pc = "phase1"
    /\ ~BallAboveAgent
    /\ ball' = [ball EXCEPT !.center_xpos = cfg.initial_agent_x,
                            !.center_ypos = InitialObjectY(args.comparison_ball_size),
                            !.size = args.comparison_ball_size \div 2]
    /\ agent' = reset_rays(agent)
    /\ calls' = calls \o
          << <<"ball.set_position",
               <<cfg.initial_agent_x, InitialObjectY(args.comparison_ball_size)>>>>,
             <<"ball.set_size", args.comparison_ball_size \div 2>>,
             <<"agent.reset_rays", Unused>> >>
    /\ pc' = "phase2"
    /\ UNCHANGED <<cfg, decodeVars, fitVars, args, result, clock, time_records,
                   object_records>>

\* lines 403-409: one pass of the second loop, the agent free
Phase2Step ==
    /\ pc = "phase2"
    /\ BallAboveAgent
    /\ clock < MaxTrialSteps
    /\ \E dx \in AgentMoves(agent, cfg.step_size, FALSE) :
          LET b == CircleStep(ball, cfg.step_size)
              a == clip_position(one_obj_step(agent, dx, b, FALSE),
                                 cfg.world_left, cfg.world_right)
          IN /\ ball' = b
             /\ agent' = a
             /\ Record(a, b, FALSE)
    /\ calls' = calls \o << <<"ball.step", cfg.step_size>>,
                            <<"agent.one_obj_step", FALSE>>,
                            <<"agent.clip_position", <<cfg.world_left, cfg.world_right>>>> >>
                      \o RecordCalls(FALSE)
    /\ clock' = clock + 1
    /\ UNCHANGED <<pc, cfg, decodeVars, fitVars, args, result>>

\* lines 411-434: the second loop has ended; the trial returns
TrialOutcome ==
    /\ pc = "phase2"
    /\ ~BallAboveAgent
    /\ result' = IF args.validation
                 THEN TrialValidation(ball, agent, args.presented_ball_size,
                                      args.comparison_ball_size)
                 ELSE TrialFitness(ball.center_xpos, agent.xpos,
                                   args.presented_ball_size, args.comparison_ball_size)
    /\ pc' = "trial_returned"
    /\ UNCHANGED <<cfg, decodeVars, fitVars, ball, agent, args, clock, calls,
                   time_records, object_records>>

\* the worlds a trial is run in: 6 wide and 10 deep, an agent of radius 1 with three
\* rays of length 3 that moves at most 1 per step
TrialConfigs ==
    {RelationalCategorization(
        [world_right |-> 6, world_bottom |-> 10, agent_radius |-> 1, num_rays |-> 3,
         max_ray_length |-> 3, max_velocity |-> 1, step_size |-> 1,
         obj_velocity |-> v, max_distance |-> d]) :
        v \in -1 .. MaxObjVelocity, d \in 1 .. MaxMaxDistance}

\* the diameters a trial is run with
TrialDiameters == {2, 4}

InitTrial ==
    /\ pc = "trial"
    /\ cfg \in TrialConfigs
    /\ \E left \in {cfg.initial_agent_x, cfg.world_left} :
          agent = SensorAgent(cfg.agent_radius, cfg.num_rays, cfg.max_ray_length, left,
                              cfg.initial_agent_y, cfg.max_velocity)
    /\ ball = Circle(cfg.circle_size, cfg.initial_agent_x, cfg.world_top, 0,
                     cfg.obj_velocity)
    /\ \E p \in TrialDiameters, c \in TrialDiameters, r \in BOOLEAN, v \in BOOLEAN :
          args = [presented_ball_size |-> p, comparison_ball_size |-> c,
                  record |-> r, validation |-> v]
    /\ result = NoResult
    /\ clock = 0
    /\ calls = <<>>
    /\ time_records = <<>> /\ object_records = NoRecords
    /\ x = Unused /\ nervous_system = Unused /\ reads = Unused
    /\ result_matrix = Unused /\ sweep = Unused /\ fitness = Unused

NextTrial ==
    \/ TrialSetup
    \/ Phase1Step
    \/ Resetup
    \/ Phase2Step
    \/ TrialOutcome

SpecTrial == InitTrial /\ [][NextTrial]_vars

\* trial is straight-line code: whenever a step of it can be taken, it is taken
SpecTrialLive == SpecTrial /\ WF_vars(NextTrial)

(***************************************************************************)
(* Claims about trial (SpecTrial).                                         *)
(***************************************************************************)
\* C9: a trial run with obj_velocity zero or negative is rejected with a configuration
\* error: it takes no step of a phase loop.
C9_NonPositiveVelocityRejected ==
    cfg.obj_velocity <= 0 => clock = 0

ContinuousReturned == pc = "trial_returned" /\ ~args.validation

\* abs(ball.center_xpos - agent.xpos) at the end of phase 2
EndDistance == Abs(ball.center_xpos - agent.xpos)

\* C10: in continuous mode trial returns 1 - d when presented_ball_size >
\* comparison_ball_size and d otherwise (equal sizes included), with
\* d = min(1, |ball.center_xpos - agent.xpos| / max_distance) at the end of phase 2;
\* the returned value lies in [0, 1].
C10_ContinuousOutcome ==
    ContinuousReturned =>
        LET m == cfg.max_distance
            cut == Min(EndDistance, m)
        IN /\ args.presented_ball_size > args.comparison_ball_size
                 => REq(result, Rat(m - cut, m))
           /\ args.presented_ball_size <= args.comparison_ball_size
                 => REq(result, Rat(cut, m))
           /\ RLe(RZero, result) /\ RLe(result, ROne)

\* a continuous trial with the larger ball presented first that ends with the agent
\* beside the ball, nearer than max_distance
C10_Witness ==
    /\ ContinuousReturned
    /\ args.presented_ball_size > args.comparison_ball_size
    /\ EndDistance > 0
    /\ EndDistance < cfg.max_distance
    /\ REq(result, Rat(cfg.max_distance - EndDistance, cfg.max_distance))

ValidationReturned == pc = "trial_returned" /\ args.validation

\* the closed intervals [lo1, hi1] and [lo2, hi2] share a point
Overlap(lo1, hi1, lo2, hi2) == \E p \in lo1 .. hi1 : lo2 <= p /\ p <= hi2

\* the final spans of the ball and of the agent overlap (touching counts)
SpansOverlap ==
    Overlap(ball.center_xpos - ball.size, ball.center_xpos + ball.size,
            agent.xpos - agent.radius, agent.xpos + agent.radius)

\* C11: in validation mode trial returns <<success, caught>>, both in {0, 1}, with
\* caught = 1 exactly when the final spans of the ball and of the agent overlap
\* (touching counts), and success = 1 exactly when caught = 1 coincides with
\* presented_ball_size > comparison_ball_size; an agent that ends centred under the
\* ball with the larger ball presented first gets <<1, 1>>.
C11_ValidationOutcome ==
    ValidationReturned =>
        LET success == result[1]
            caught == result[2]
            larger == args.presented_ball_size > args.comparison_ball_size
        IN /\ Len(result) = 2
           /\ success \in {0, 1} /\ caught \in {0, 1}
           /\ (caught = 1) <=> SpansOverlap
           /\ (success = 1) <=> ((caught = 1) <=> larger)
           /\ (larger /\ agent.xpos = ball.center_xpos) => result = <<1, 1>>

\* a validation trial that ends with the spans only touching, the smaller ball presented
\* first: caught, and so no success
C11_Witness ==
    /\ ValidationReturned
    /\ args.presented_ball_size < args.comparison_ball_size
    /\ Abs(agent.xpos - ball.center_xpos) = ball.size + agent.radius
    /\ result = <<0, 1>>

\* seq repeated n times
Repeated(seq, n) == [k \in 1 .. n * Len(seq) |-> seq[((k - 1) % Len(seq)) + 1]]

\* the calls of the trial on the agent, the controller and the ball
SimulationCalls == SelectSeq(calls, LAMBDA c : c[1] # "_record_data")

\* where in calls the call op is made
CallsOf(op) == {k \in 1 .. Len(calls) : calls[k][1] = op}

\* the place an object of diameter size is dropped from
DropPlace(size) ==
    <<cfg.initial_agent_x,
      cfg.initial_agent_y - (cfg.agent_radius + cfg.max_ray_length + size)>>

\* setup: the agent's position, rays and velocity reset, the controller initialised,
\* the object placed with the presented size
SetupOrder ==
    << <<"agent.set_position", <<cfg.initial_agent_x, cfg.initial_agent_y>>>>,
       <<"agent.reset_rays", Unused>>,
       <<"agent.nervous_system.initialize", Unused>>,
       <<"agent.velocity_x", 0>>,
       <<"ball.set_position", DropPlace(args.presented_ball_size)>>,
       <<"ball.set_size", args.presented_ball_size \div 2>>,
       <<"agent.initialize_ray_sensors", Unused>> >>

\* a phase-1 step: an object step, then an agent update with the frozen flag set
Phase1Order == << <<"ball.step", cfg.step_size>>, <<"agent.one_obj_step", TRUE>> >>

\* re-setup: the object repositioned with the comparison size, the rays reset
ResetupOrder ==
    << <<"ball.set_position", DropPlace(args.comparison_ball_size)>>,
       <<"ball.set_size", args.comparison_ball_size \div 2>>,
       <<"agent.reset_rays", Unused>> >>

\* a phase-2 step: an object step, an agent update with the frozen flag clear, a clip
Phase2Order ==
    << <<"ball.step", cfg.step_size>>, <<"agent.one_obj_step", FALSE>>,
       <<"agent.clip_position", <<cfg.world_left, cfg.world_right>>>> >>

\* the calls of a trial that has taken n1 phase-1 steps and, past re-setup, n2 phase-2
\* steps
TrialOrder(n1, n2) ==
    SetupOrder \o Repeated(Phase1Order, n1)
       \o (IF pc = "phase1" THEN <<>> ELSE ResetupOrder \o Repeated(Phase2Order, n2))

\* the calls made so far follow the order of the phases
CallsInOrder ==
    pc \in {"phase1", "phase2", "trial_returned"} =>
        /\ \E n1 \in 0 .. clock :
              /\ pc = "phase1" => n1 = clock
              /\ SimulationCalls = TrialOrder(n1, clock - n1)
        /\ Cardinality(CallsOf("agent.nervous_system.initialize")) = 1
        /\ agent.initialized = 1
        /\ \A k \in CallsOf("agent.nervous_system.initialize"), m \in CallsOf("ball.step") :
              k < m
        /\ \A k \in CallsOf("agent.one_obj_step") :
              calls[k][2] = (Cardinality({m \in CallsOf("ball.set_position") : m < k}) = 1)

\* the object's leading edge has reached the agent's top
EdgeReached == ball.center_ypos + ball.size >= agent.ypos - agent.radius

\* a phase takes a step only while the edge is not reached, and ends only once it is
PhaseEndsAtEdge ==
    /\ (pc \in {"phase1", "phase2"} /\ pc' = pc) => ~EdgeReached /\ clock' = clock + 1
    /\ (pc = "phase1" /\ pc' # pc) => EdgeReached /\ pc' = "phase2" /\ clock' = clock
    /\ (pc = "phase2" /\ pc' # pc) =>
          EdgeReached /\ pc' = "trial_returned" /\ clock' = clock

\* C13: every trial goes setup, phase-1 steps (object step, frozen agent update),
\* re-setup, phase-2 steps (object step, free agent update, clip), outcome; the
\* controller is initialised once, before the first phase-1 step and never between the
\* phases; no free update comes before re-setup and no frozen one after it; each phase
\* ends at the first step after which leading_edge_y >= agent.ypos - agent.radius.
C13_PhaseOrder == [](CallsInOrder) /\ [][PhaseEndsAtEdge]_vars

\* a returned trial that took steps in both phases
C13_Witness ==
    /\ pc = "trial_returned"
    /\ Cardinality({k \in CallsOf("agent.one_obj_step") : calls[k][2]}) >= 2
    /\ Cardinality({k \in CallsOf("agent.one_obj_step") : ~calls[k][2]}) >= 2
    /\ Cardinality(CallsOf("agent.clip_position")) >= 2

\* the object falls: a strictly positive fall velocity and time step
Falling == cfg.obj_velocity > 0 /\ cfg.step_size > 0

\* the agent's vertical position and radius are those it was set up with
AgentLevel == agent.ypos = cfg.initial_agent_y /\ agent.radius = cfg.agent_radius

\* C14: with a strictly positive fall velocity and step_size, a finite drop height and
\* an agent whose ypos and radius do not change, both loops of trial terminate: phase 1
\* reaches leading_edge_y >= agent.ypos - agent.radius, phase 2 then reaches it again,
\* and the trial returns an outcome.
C14_TrialTerminates ==
    /\ (Falling /\ pc = "trial") ~> (pc = "phase1" /\ EdgeReached /\ AgentLevel)
    /\ (Falling /\ pc = "phase1" /\ EdgeReached)
          ~> (pc = "phase2" /\ EdgeReached /\ AgentLevel)
    /\ (Falling /\ pc = "phase2" /\ EdgeReached)
          ~> (pc = "trial_returned" /\ result # NoResult)

\* a trial of a falling object that has returned after steps in both phases, the ball
\* dropped from the greatest height
C14_Witness ==
    /\ Falling
    /\ pc = "trial_returned"
    /\ result # NoResult
    /\ args.presented_ball_size = 4 /\ args.comparison_ball_size = 4
    /\ cfg.obj_velocity = 1
    /\ clock = 10

\* the fields of the ball, the agent and the rays that _record_data logs
Snapshot(a, b) ==
    [ball |-> [x |-> b.center_xpos, y |-> b.center_ypos, radius |-> b.size],
     agent |-> [x |-> a.xpos, y |-> a.ypos, radius |-> a.radius],
     rays |-> [i \in 1 .. Len(a.rays) |->
                 [x1 |-> a.rays[i].x1, y1 |-> a.rays[i].y1,
                  x2 |-> a.rays[i].x2, y2 |-> a.rays[i].y2]]]

\* what the log records holds at index k (1 is the initial entry)
Logged(records, k) ==
    [ball |-> [x |-> records.ball.x[k], y |-> records.ball.y[k],
               radius |-> records.ball.radius[k]],
     agent |-> [x |-> records.agent.x[k], y |-> records.agent.y[k],
                radius |-> records.agent.radius[k]],
     rays |-> [i \in 1 .. Len(records.rays) |->
                 [x1 |-> records.rays[i].x1[k], y1 |-> records.rays[i].y1[k],
                  x2 |-> records.rays[i].x2[k], y2 |-> records.rays[i].y2[k]]]]

\* the lengths of the series of the log
SeriesLengths(records) ==
    {Len(records.ball.x), Len(records.ball.y), Len(records.ball.radius),
     Len(records.agent.x), Len(records.agent.y), Len(records.agent.radius)}
    \cup UNION {{Len(records.rays[i].x1), Len(records.rays[i].y1),
                 Len(records.rays[i].x2), Len(records.rays[i].y2)} :
                   i \in 1 .. Len(records.rays)}

\* a recording trial is past its setup
Recording == args.record /\ pc \in {"phase1", "phase2", "trial_returned"}

\* time_records and every series hold 1 + clock entries, one per ray of the agent
LogLengths ==
    Recording =>
        /\ Len(time_records) = 1 + clock
        /\ SeriesLengths(object_records) = {1 + clock}
        /\ Len(object_records.rays) = Len(agent.rays)

\* the entries logged so far stay as they are, and an entry that is added holds the
\* fields of the ball, the agent and the rays as they are at that moment
LogStep ==
    args.record =>
        /\ \A k \in 1 .. Len(time_records) :
              /\ time_records'[k] = time_records[k]
              /\ Logged(object_records', k) = Logged(object_records, k)
        /\ Len(time_records') > Len(time_records) =>
              /\ Len(time_records') = Len(time_records) + 1
              /\ Logged(object_records', Len(time_records')) = Snapshot(agent', ball')

\* C15: with record = True the log is a faithful snapshot of every step: time_records
\* and every series have 1 + (the steps of both phases) entries, and at every index,
\* the initial one included, the logged ball x/y/radius, agent x/y/radius and each
\* ray's x1, y1, x2, y2 are the fields of that object at that moment.
C15_LogFaithful == [](LogLengths) /\ [][LogStep]_vars

(***************************************************************************)
(* run_trials.  The trial a cell runs is stood for by where it leaves the  *)
(* agent: sweep.behaviour fixes abs(ball.center_xpos - agent.xpos) at the  *)
(* end of each trial (SpecTrial models the trial itself).                  *)
(***************************************************************************)
\* int(circle_max_diameter / circle_difference)
ResultMatrixSide == cfg.circle_max_diameter \div cfg.circle_difference

\* run_trials up to the loops: result_matrix = np.zeros((n, n))
CreateResultMatrix ==
    /\ pc = "run_trials"
    /\ result_matrix' = SquareMatrix(ResultMatrixSide, Zeros2(ResultMatrixSide, ResultMatrixSide))
    /\ sweep' = [sweep EXCEPT !.i = 0, !.j = 0]
    /\ pc' = IF ResultMatrixSide = 0 THEN "eval_fitness" ELSE "sweep"
    /\ UNCHANGED <<cfg, decodeVars, fitness, trialVars>>

FinalDistance(behaviour, presented, comparison) ==
    CASE behaviour = "catch" -> 0
      [] behaviour = "avoid" -> 2 * cfg.max_distance
      [] behaviour = "near" -> cfg.max_distance \div 3
      [] OTHER -> IF presented > comparison THEN 0 ELSE 2 * cfg.max_distance

\* ball_size and compare_ball_size of the cells of row or column k
SweepSize(k) == k * cfg.circle_difference + cfg.circle_min_diameter

\* a slip: a trial for every pair
RunsTrialEveryPair(i, j) == TRUE

\* if i != j (line 326)
RunsTrial(i, j) == i # j

\* one pass of the inner loop body (lines 326-332), and the loop steps.  The trial is
\* called without record and validation, which default to False.
SweepCell ==
    /\ pc = "sweep"
    /\ LET i == sweep.i
           j == sweep.j
           n == result_matrix.shape[1]
           m == result_matrix.shape[2]
           ball_size == SweepSize(i)
           compare_ball_size == SweepSize(j)
           last == j + 1 >= m
           outcome == TrialFitness(cfg.initial_agent_x,
                                   cfg.initial_agent_x
                                     + FinalDistance(sweep.behaviour, ball_size,
                                                     compare_ball_size),
                                   ball_size, compare_ball_size)
       IN /\ IF RunsTrial(i, j)
             THEN /\ result_matrix' = [result_matrix EXCEPT !.at[<<i, j>>] = outcome]
                  /\ sweep' = [sweep EXCEPT
                                  !.i = IF last THEN i + 1 ELSE i,
                                  !.j = IF last THEN 0 ELSE j + 1,
                                  !.trials = Append(@, [i |-> i, j |-> j,
                                                        presented |-> ball_size,
                                                        comparison |-> compare_ball_size,
                                                        record |-> FALSE,
                                                        validation |-> FALSE,
                                                        result |-> outcome])]
             ELSE /\ result_matrix' = result_matrix
                  /\ sweep' = [sweep EXCEPT
                                  !.i = IF last THEN i + 1 ELSE i,
                                  !.j = IF last THEN 0 ELSE j + 1]
          /\ pc' = IF last /\ i + 1 >= n THEN "eval_fitness" ELSE "sweep"
    /\ UNCHANGED <<cfg, decodeVars, fitness, trialVars>>

\* <<circle_min_diameter, circle_max_diameter, circle_difference>>: the defaults and
\* the small grids
SweepGrids ==
    {<<parameter_defaults.circle_min_diameter, parameter_defaults.circle_max_diameter,
       parameter_defaults.circle_difference>>}
    \cup {g \in (1 .. 2) \X (1 .. MaxSweepDiameter) \X (1 .. 2) : g[1] <= g[2]}

SweepBehaviours == {"catch", "avoid", "near", "discriminate"}

InitSweep ==
    /\ pc = "run_trials"
    /\ \E g \in SweepGrids :
          cfg = RelationalCategorization(
                   [circle_min_diameter |-> g[1], circle_max_diameter |-> g[2],
                    circle_difference |-> g[3]])
    /\ \E b \in SweepBehaviours : sweep = [i |-> 0, j |-> 0, trials |-> <<>>, behaviour |-> b]
    /\ result_matrix = Unused /\ fitness = Unused
    /\ x = Unused /\ nervous_system = Unused /\ reads = Unused
    /\ ball = Unused /\ agent = Unused /\ args = Unused /\ result = Unused
    /\ clock = Unused /\ calls = Unused
    /\ time_records = Unused /\ object_records = Unused

NextSweep ==
    \/ CreateResultMatrix
    \/ SweepCell
    \/ EvalFitness

SpecSweep == InitSweep /\ [][NextSweep]_vars

(***************************************************************************)
(* Claims about run_trials (SpecSweep).                                    *)
(***************************************************************************)
\* C2: run_trials builds an outcome matrix of side
\* n = floor((circle_max_diameter - circle_min_diameter) / circle_difference), and
\* index k of the matrix stands for the diameter circle_min_diameter + k * circle_difference.
C2_SideFromDiameterRange ==
    pc \in {"sweep", "eval_fitness", "returned", "ZeroDivisionError"} =>
        LET n == (cfg.circle_max_diameter - cfg.circle_min_diameter)
                    \div cfg.circle_difference
        IN /\ result_matrix.shape = <<n, n>>
           /\ \A k \in 1 .. Len(sweep.trials) :
                 LET t == sweep.trials[k]
                 IN /\ t.presented = cfg.circle_min_diameter + t.i * cfg.circle_difference
                    /\ t.comparison = cfg.circle_min_diameter + t.j * cfg.circle_difference

\* run_trials has created its matrix
MatrixCreated == pc \in {"sweep", "eval_fitness", "returned", "ZeroDivisionError"}

\* the cell <<a, b>> lies before the cell the loops of run_trials are at
CellDone(a, b) ==
    pc # "sweep" \/ a < sweep.i \/ (a = sweep.i /\ b < sweep.j)

\* the trials run_trials has run for the cell <<a, b>>
TrialsOf(a, b) ==
    {k \in 1 .. Len(sweep.trials) : sweep.trials[k].i = a /\ sweep.trials[k].j = b}

\* fitness_matrix with v in every diagonal cell
WithDiagonal(M, v) ==
    [M EXCEPT !.at = [c \in DOMAIN M.at |-> IF c[1] = c[2] THEN Rat(v, 1) ELSE M.at[c]]]

\* C12: run_trials runs no trial for a pair (i, i) and every diagonal cell keeps its
\* initial 0; every off-diagonal cell [i, j] the loops have passed holds the result of
\* exactly one continuous-mode trial, with presented size index i and comparison size
\* index j; eval_fitness gives the same result whatever is on the diagonal.
C12_DiagonalUntouched ==
    MatrixCreated =>
        LET n == result_matrix.shape[1]
        IN /\ \A k \in 1 .. Len(sweep.trials) :
                 LET t == sweep.trials[k]
                 IN /\ t.i # t.j
                    /\ ~t.validation
                    /\ t.presented = cfg.circle_min_diameter + t.i * cfg.circle_difference
                    /\ t.comparison = cfg.circle_min_diameter + t.j * cfg.circle_difference
           /\ \A a \in 0 .. n - 1, b \in 0 .. n - 1 :
                 IF a = b
                 THEN result_matrix.at[<<a, b>>] = RZero
                 ELSE IF CellDone(a, b)
                      THEN /\ Cardinality(TrialsOf(a, b)) = 1
                           /\ \A k \in TrialsOf(a, b) :
                                 result_matrix.at[<<a, b>>] = sweep.trials[k].result
                      ELSE /\ TrialsOf(a, b) = {}
                           /\ result_matrix.at[<<a, b>>] = RZero
           /\ \A v \in {1, 3} :
                 eval_fitness(WithDiagonal(result_matrix, v)) = eval_fitness(result_matrix)

\* a finished sweep of a matrix of side 4: twelve trials, none on the diagonal, and a
\* fitness above 0
C12_Witness ==
    /\ pc = "returned"
    /\ result_matrix.shape[1] = 4
    /\ Len(sweep.trials) = 12
    /\ \A a \in 0 .. 3 : result_matrix.at[<<a, a>>] = RZero
    /\ ~RLe(fitness.value, RZero)

(***************************************************************************)
(* Claims about eval_fitness (SpecFit).                                    *)
(***************************************************************************)
RECURSIVE RSum(_)
RSum(seq) == IF seq = <<>> THEN RZero ELSE RAdd(Head(seq), RSum(Tail(seq)))

Side == result_matrix.shape[1]

\* the fractions cell(j) for j in lo..hi, averaged
Average(cell(_), lo, hi) ==
    RDivInt(RSum([k \in 1 .. hi - lo + 1 |-> cell(lo + k - 1)]), hi - lo + 1)

\* the average of column i (byColumn) or row i over all cells with j # i
WholeAverage(i, byColumn) ==
    LET at(j) == IF byColumn THEN result_matrix.at[<<j, i>>] ELSE result_matrix.at[<<i, j>>]
    IN RDivInt(RAdd(RSum([k \in 1 .. i |-> at(k - 1)]),
                    RSum([k \in 1 .. Side - 1 - i |-> at(i + k)])),
               Side - 1)

\* the average over the cells j < i plus the average over the cells j > i
SplitAverage(i, byColumn) ==
    LET at(j) == IF byColumn THEN result_matrix.at[<<j, i>>] ELSE result_matrix.at[<<i, j>>]
    IN RAdd(Average(at, 0, i - 1), Average(at, i + 1, Side - 1))

\* the mean of avg(i, byColumn) over the interior indices 1..n-2
InteriorMean(avg(_, _), byColumn) ==
    RDivInt(RSum([k \in 1 .. Side - 2 |-> avg(k, byColumn)]), Side - 2)

OffDiagonalAll(v) ==
    \A c \in DOMAIN result_matrix.at : c[1] # c[2] => REq(result_matrix.at[c], Rat(v, 1))

FitnessReturned == pc = "returned" /\ Side >= 3

\* C1 as claimed: for a matrix of side n >= 3, eval_fitness is min(C, R) / 2 with C the
\* mean over the interior i of the average of column i over all n-1 cells j # i and R
\* the same with rows; it is 0.5 when every off-diagonal cell is 1 and 0 when every one
\* is 0.
C1_WholeAverageFitness ==
    FitnessReturned =>
        /\ REq(fitness.value,
               RDivInt(RMin(InteriorMean(WholeAverage, TRUE),
                            InteriorMean(WholeAverage, FALSE)), 2))
        /\ OffDiagonalAll(1) => REq(fitness.value, Rat(1, 2))
        /\ OffDiagonalAll(0) => REq(fitness.value, RZero)

\* C1 amended: for a matrix of side n >= 3, eval_fitness is min(C, R) / 2 with C the
\* mean over the interior i of (the average of column i over the cells j < i) + (the
\* average of column i over the cells j > i) and R the same with rows; it is 1 when
\* every off-diagonal cell is 1 and 0 when every one is 0.
C1_SplitAverageFitness ==
    FitnessReturned =>
        /\ REq(fitness.value,
               RDivInt(RMin(InteriorMean(SplitAverage, TRUE),
                            InteriorMean(SplitAverage, FALSE)), 2))
        /\ OffDiagonalAll(1) => REq(fitness.value, ROne)
        /\ OffDiagonalAll(0) => REq(fitness.value, RZero)

\* eval_fitness has returned for a matrix of the largest side whose off-diagonal cells
\* are all 1
C1_Witness ==
    /\ FitnessReturned
    /\ Side = MaxSide
    /\ OffDiagonalAll(1)
    /\ REq(fitness.value, ROne)

\* C8: eval_fitness on a matrix of side n <= 2 ends in an error; it never returns a
\* numeric fitness for such a matrix.
C8_DegenerateNeverReturns ==
    (pc # "eval_fitness" /\ Side <= 2) => fitness.kind # "return"

(***************************************************************************)
(* Claims about the decoder (SpecDecode).                                  *)
(***************************************************************************)
RightLength == Len(x) = cfg.num_parameters

SymDecoded == pc = "decoded" /\ cfg.bilateral_symmetry /\ RightLength

AsymDecoded == pc = "decoded" /\ ~cfg.bilateral_symmetry /\ RightLength

InBounds(v, lo, hi) == RLe(Rat(lo, 1), v) /\ RLe(v, Rat(hi, 1))

Interneurons == 0 .. cfg.num_interneurons - 1

SensorSegment ==
    RescaledSegment(PySlice(x, 0, sensor_index_end), cfg.min_weight, cfg.max_weight)

CircuitSegment ==
    RescaledSegment(PySlice(x, sensor_index_end, circuit_index_end),
                    cfg.min_weight, cfg.max_weight)

BiasSegment ==
    RescaledSegment(PySlice(x, circuit_index_end, bias_index_end),
                    cfg.min_bias, cfg.max_bias)

TauSegment == RescaledSegment(PySliceFrom(x, bias_index_end), cfg.min_tau, cfg.max_tau)

\* C3: for every genome of length num_parameters and every min_search_value <
\* max_search_value, every decoded sensor and internal weight lies in
\* [min_weight, max_weight], every bias in [min_bias, max_bias] and every time
\* constant in [min_tau, max_tau], in both modes.
C3_DecodedWithinBounds ==
    (pc = "decoded" /\ RightLength) =>
        /\ \A cell \in DOMAIN nervous_system.sensor_weights :
              InBounds(nervous_system.sensor_weights[cell], cfg.min_weight, cfg.max_weight)
        /\ \A cell \in Interneurons \X (0 .. cfg.circuit_size - 1) :
              InBounds(nervous_system.circuit_weights[cell], cfg.min_weight, cfg.max_weight)
        /\ \A k \in DOMAIN nervous_system.biases :
              InBounds(nervous_system.biases[k], cfg.min_bias, cfg.max_bias)
        /\ \A k \in DOMAIN nervous_system.time_constants :
              InBounds(nervous_system.time_constants[k], cfg.min_tau, cfg.max_tau)

\* the decoded controller read back in row-major order
SensorReadback ==
    LET I == cfg.num_interneurons
    IN [k \in 1 .. cfg.num_rays * I |->
          nervous_system.sensor_weights[<<(k - 1) \div I, (k - 1) % I>>]]

CircuitRowMajorReadback ==
    LET cs == cfg.circuit_size
    IN [k \in 1 .. cfg.num_interneurons * cs |->
          nervous_system.circuit_weights[<<(k - 1) \div cs, (k - 1) % cs>>]]

CircuitBlockThenMotorReadback ==
    LET I == cfg.num_interneurons
    IN [k \in 1 .. I * I |->
          nervous_system.circuit_weights[<<(k - 1) \div I, (k - 1) % I>>]]
       \o
       [k \in 1 .. 2 * I |->
          nervous_system.circuit_weights[<<(k - 1) \div 2, I + ((k - 1) % 2)>>]]

VectorReadback(v) == [k \in 1 .. cfg.circuit_size |-> v[k - 1]]

\* C4 as claimed: in asymmetric mode the k-th value read from each structure in
\* row-major order (internal weights over interneuron x circuit_size) is the rescaled
\* k-th entry of the structure's genome segment.
C4_RowMajorRoundTrip ==
    AsymDecoded =>
        /\ SensorReadback = SensorSegment
        /\ CircuitRowMajorReadback = CircuitSegment
        /\ VectorReadback(nervous_system.biases) = BiasSegment
        /\ VectorReadback(nervous_system.time_constants) = TauSegment

\* C4 amended: in asymmetric mode the internal-weight segment holds the interneuron x
\* interneuron block in row-major order followed by the interneuron x 2 motor block in
\* row-major order; sensor weights, biases and time constants are as claimed.
C4_BlockThenMotorRoundTrip ==
    AsymDecoded =>
        /\ SensorReadback = SensorSegment
        /\ CircuitBlockThenMotorReadback = CircuitSegment
        /\ VectorReadback(nervous_system.biases) = BiasSegment
        /\ VectorReadback(nervous_system.time_constants) = TauSegment

\* an asymmetric decode of a genome of distinct entries with several interneurons
C4_Witness ==
    /\ AsymDecoded
    /\ cfg.num_interneurons >= 2
    /\ Cardinality({CircuitSegment[k] : k \in 1 .. Len(CircuitSegment)})
          = cfg.num_circuit_weights

\* C5: in bilateral-symmetric mode the decoded controller is mirror-symmetric with
\* equal values: sensor_weights[i, j] = sensor_weights[R-1-i, I-1-j];
\* circuit_weights[i, j] = circuit_weights[I-1-i, I-1-j] over the interneurons;
\* circuit_weights[i, I+k] = circuit_weights[I-1-i, circuit_size-1-k] for k in {0, 1};
\* bias[i] = bias[I-1-i], tau[i] = tau[I-1-i]; the two motor biases are equal and the
\* two motor time constants are equal.
C5_MirrorSymmetric ==
    SymDecoded =>
        LET R == cfg.num_rays
            I == cfg.num_interneurons
            cs == cfg.circuit_size
            sw == nervous_system.sensor_weights
            cw == nervous_system.circuit_weights
            b == nervous_system.biases
            tau == nervous_system.time_constants
        IN /\ \A i \in 0 .. R - 1, j \in Interneurons :
                 sw[<<i, j>>] = sw[<<R - 1 - i, I - 1 - j>>]
           /\ \A i \in Interneurons, j \in Interneurons :
                 cw[<<i, j>>] = cw[<<I - 1 - i, I - 1 - j>>]
           /\ \A i \in Interneurons, k \in {0, 1} :
                 cw[<<i, I + k>>] = cw[<<I - 1 - i, cs - 1 - k>>]
           /\ \A i \in Interneurons : b[i] = b[I - 1 - i] /\ tau[i] = tau[I - 1 - i]
           /\ b[cs - 2] = b[cs - 1]
           /\ tau[cs - 2] = tau[cs - 1]

\* a symmetric decode with odd ray and interneuron counts whose sensor row is not constant
C5_Witness ==
    /\ SymDecoded
    /\ cfg.num_rays % 2 = 1
    /\ cfg.num_interneurons % 2 = 1
    /\ cfg.num_interneurons >= 3
    /\ nervous_system.sensor_weights[<<0, 0>>] # nervous_system.sensor_weights[<<0, 1>>]

\* C6: in bilateral-symmetric mode the counts of __init__ match what the decoder
\* consumes: the sensor loops read exactly 0..num_sensor_weights-1 of the sensor
\* segment, the internal-weight loops exactly 0..num_circuit_weights-1 of the internal
\* segment, the bias and time-constant segments have ceil(circuit_size/2) entries that
\* are all read, and num_parameters is the sum of the four segment lengths: no index
\* is left over and none is overrun.
C6_CountsMatchConsumption ==
    (cfg.bilateral_symmetry /\ RightLength) =>
        LET half == CeilHalf(cfg.circuit_size)
        IN /\ pc # "IndexError"
           /\ cfg.num_parameters
                 = cfg.num_sensor_weights + cfg.num_circuit_weights + half + half
           /\ pc \in {"circuit_weights", "biases", "time_constants", "decoded"} =>
                 /\ Len(PySlice(x, 0, sensor_index_end)) = cfg.num_sensor_weights
                 /\ reads.sensor = 0 .. cfg.num_sensor_weights - 1
           /\ pc \in {"biases", "time_constants", "decoded"} =>
                 /\ Len(PySlice(x, sensor_index_end, circuit_index_end))
                       = cfg.num_circuit_weights
                 /\ reads.circuit = 0 .. cfg.num_circuit_weights - 1
           /\ pc \in {"time_constants", "decoded"} =>
                 /\ Len(PySlice(x, circuit_index_end, bias_index_end)) = half
                 /\ reads.bias = 0 .. half - 1
           /\ pc = "decoded" =>
                 /\ Len(PySliceFrom(x, bias_index_end)) = half
                 /\ reads.tau = 0 .. half - 1
                 /\ {k : k \in reads.sensor}
                       \cup {sensor_index_end + k : k \in reads.circuit}
                       \cup {circuit_index_end + k : k \in reads.bias}
                       \cup {bias_index_end + k : k \in reads.tau}
                    = 0 .. cfg.num_parameters - 1

\* a symmetric decode of the largest odd-by-odd controller, every segment read
C6_Witness ==
    /\ SymDecoded
    /\ cfg.num_rays % 2 = 1
    /\ cfg.num_interneurons % 2 = 1
    /\ cfg.num_rays >= MaxRays - 1
    /\ cfg.num_interneurons >= MaxInterneurons - 1
    /\ reads.tau # {}

\* C7 (in the bilateral-symmetric mode, whose outcome the decoder's own code decides):
\* map_search_parameters called with a genome whose length differs from
\* num_parameters ends in an error; it never completes normally.
C7_WrongLengthRejected ==
    (cfg.bilateral_symmetry /\ Len(x) # cfg.num_parameters) => pc # "decoded"

====
